---- MODULE Spec2Model ----
(***************************************************************************)
(* Sanctuary Sprint: the simulation loop of src/app/page.tsx (component    *)
(* Page), with the part of React's scheduling the loop depends on.         *)
(*                                                                         *)
(* Numbers.  The code computes in IEEE doubles; the model computes in      *)
(* fixed point.  Lengths (position, velocity per tick, charge, dash, wave  *)
(* y, gap centre and width) are integers in units of 1/Unit; speed is in   *)
(* units of 1/Unit per second; time (now, dt) is in milliseconds; score,   *)
(* streak, hits, best are the integers they are in the code.               *)
(*                                                                         *)
(* React.  ui.status is a useState field: setUi queues an updater, the     *)
(* component re-renders later, and the closures created by a render        *)
(* (onHoldStart, and the tick of the effect whose dependency is            *)
(* ui.status) read the status of the render that created them.  An update  *)
(* queued by a tick is rendered in a later task (Render) and the effect is *)
(* re-run in a task after that (RunEffect); frames may be delivered in     *)
(* between.  An update queued by a pointer-down handler is rendered, and   *)
(* its effect re-run, before anything else is delivered (Flush).           *)
(*                                                                         *)
(* Left out: t0Ref, dims and the fields of ui other than status (score,    *)
(* best, streak, msg, sessionSec, intensity), which only the markup reads. *)
(*                                                                         *)
(* Exploration.  Frames arrive every FrameMs; the first tick has dt = 0.   *)
(* Spec delivers MaxFrames frames and samples the pointer every            *)
(* PointerEvery frames; SpecLong delivers LongFrames frames (two waves     *)
(* cross) with the pointer events before the first frame.  SpecTeardown is *)
(* Spec with the teardown of the view (Unmount).  SpecDt varies the frame  *)
(* period around the crossing of a wave (DeltasWide) and runs until the    *)
(* first wave is pruned.                                                   *)
(*                                                                         *)
(* History.  crossings counts, for each wave of the field, the ticks whose *)
(* crossing test was true for it; ev records the step last taken.  No      *)
(* action reads crossings; of ev only the guards Mounted and DeltasNow and *)
(* the record of the next step (prev) are read.                            *)
(***************************************************************************)
EXTENDS Integers, Sequences, FiniteSets

VARIABLES
    px,          \* pxRef.current
    vel,         \* velRef.current
    dash,        \* dashRef.current
    charge,      \* chargeRef.current
    alive,       \* aliveRef.current
    waves,       \* wavesRef.current
    waveId,      \* waveIdRef.current
    score,       \* scoreRef.current
    best,        \* bestRef.current
    streak,      \* streakRef.current
    hits,        \* hitsRef.current
    nearMiss,    \* nearMissRef.current
    holding,     \* holdingRef.current
    last,        \* lastRef.current (ms)
    rafRef,      \* rafRef.current: handle of the last requested frame, 0 for null
    raf,         \* the frame scheduler: pending callbacks [id, st], st the status the tick closure reads
    uiStatus,    \* ui.status of the committed render (what onHoldStart reads)
    uiQueue,     \* status values of the setUi updaters queued and not yet rendered
    effectDirty, \* the main-loop effect is scheduled to run (mount, or ui.status changed)
    syncFlush,   \* a pointer-down handler has queued an update React flushes before the next event
    stored,      \* localStorage item "sanctuary_best"
    inputs,      \* pointer events delivered so far (bounded by MaxInputs)
    stale,       \* ticks run since a status update was queued that the loop has not picked up
    crossings,   \* history: for each wave of the field, the ticks whose crossing test was true for it
    ev           \* the step last taken: [op, prev, st, dt, live]

vars == << px, vel, dash, charge, alive, waves, waveId, score, best, streak, hits,
           nearMiss, holding, last, rafRef, raf, uiStatus, uiQueue, effectDirty,
           syncFlush, stored, inputs, stale, crossings, ev >>

simVars == << px, vel, dash, charge, alive, waves, waveId, score, streak, hits, nearMiss >>

----------------------------------------------------------------------------
(* Scale and bounds *)

\* 1.0 of the code's normalised lengths (pxRef and chargeRef run over 0..1)
Unit == 100000

\* the largest dt a tick uses, ms: Math.min(0.033, ...)
MaxDt == 33
\* time between two frames of the display, ms: a 30 Hz display, whose frames
\* are the longest the tick does not cut short
FrameMs == MaxDt
Deltas == {FrameMs}

\* frames the display delivers in a behaviour of Spec, and of SpecLong
MaxFrames == 86
LongFrames == 130
\* pointer events delivered in a behaviour
MaxInputs == 3
\* in Spec the pointer is sampled every PointerEvery frames (any number of
\* events may arrive at a sampled instant); in SpecLong only before the first frame
PointerEvery == 21
\* frames the display may deliver between a tick's setUi and the re-run of the
\* effect that replaces the tick
MaxStale == 2

\* frames of SpecTeardown
TeardownFrames == 85
\* frames of SpecDt, and the distance from the player band (1/Unit), above and
\* below, within which SpecDt varies the frame period
DtFrames == 120
BandNear == 1155
\* pointer events of SpecDt, all before the first frame
DtInputs == 2
\* frame periods of SpecDt, ms: a timestamp repeated (a coarse timer), 144 Hz,
\* 60 Hz, the clamp, and a frame late enough to be cut to the clamp
DeltasWide == {0, 7, 16, MaxDt, 50}

\* Math.random() in percent
Rands == {0, 83, 99}

\* localStorage item at page load: no item, an item that is not a number, a stored score
Item(k, n) == [kind |-> k, val |-> n]
StoredAtLoad == {Item("none", 0), Item("nan", 0), Item("num", 40)}

----------------------------------------------------------------------------
(* Pure helpers *)

Min(a, b) == IF a < b THEN a ELSE b
Max(a, b) == IF a > b THEN a ELSE b

clamp(n, a, b) == Max(a, Min(b, n))

\* Math.sin(now * 0.0012) * 1000.  The angle is taken in milliradians modulo 2*pi
\* (6283) and the half wave is Bhaskara's rational approximation
\* 16 t (pi - t) / (5 pi^2 - 4 t (pi - t)).
HalfSin(t) == (16 * t * (3142 - t)) \div ((49360820 - 4 * t * (3142 - t)) \div 1000)
SinMilli(now) ==
    LET a == ((now * 12) \div 10) % 6283
    IN  IF a <= 3142 THEN HalfSin(a) ELSE 0 - HalfSin(a - 3142)

\* Math.pow(0.08, dt) * 1000 for dt in ms: exp(-x) with x = ln(12.5) * dt / 1000,
\* by 1 - x + x^2/2 (x in 1/100000)
Pow008(dt) ==
    LET x == (2526 * dt) \div 10
    IN  (100000 - x + (x * x) \div 200000) \div 100

\* dt of a tick whose timestamp is now (ms)
DtOf(now, lst) == Min(MaxDt, now - (IF lst = 0 THEN now ELSE lst))

----------------------------------------------------------------------------
(* Wave generator *)

Wave(id, y, gapX, gapW, speed) ==
    [id |-> id, y |-> y, gapX |-> gapX, gapW |-> gapW, speed |-> speed]

\* the wave spawnWave pushes, r = Math.random() in percent
NewWave(id, sc, r) ==
    Wave(id, 115000,
         clamp(15000 + r * 700, 10000, 90000),
         clamp(26000 - sc * 60, 12000, 26000),
         clamp(35000 + sc * 15, 35000, 115000))

\* mutant of Spawned: the last wave is read before the spawn into an empty field,
\* so an empty field gets two waves
SpawnedBoth(ws, id, sc, r1, r2) ==
    IF ws = << >>
    THEN << NewWave(id, sc, r1), NewWave(id + 1, sc, r2) >>
    ELSE IF ws[Len(ws)].y < 65000 THEN Append(ws, NewWave(id, sc, r2)) ELSE ws

\* mutant of SpawnLow: no spawn while the field has a wave
SpawnLowNever(ws) == FALSE
\* lines 159-162: spawn when the field is empty, then when the last wave is below 0.65
SpawnLow(ws) == ws # << >> /\ ws[Len(ws)].y < 65000

\* mutant of Spawned: the new wave is put in front of the field
SpawnedFront(ws, id, sc, r1, r2) ==
    IF ws = << >> THEN << NewWave(id, sc, r1) >>
    ELSE IF SpawnLow(ws) THEN << NewWave(id, sc, r2) >> \o ws ELSE ws

Spawned(ws, id, sc, r1, r2) ==
    LET a  == IF ws = << >> THEN Append(ws, NewWave(id, sc, r1)) ELSE ws
        ia == IF ws = << >> THEN id + 1 ELSE id
        b  == IF SpawnLow(a) THEN Append(a, NewWave(ia, sc, r2)) ELSE a
    IN  b

\* lines 165-167
Moved(ws, dt) ==
    [i \in DOMAIN ws |-> [ws[i] EXCEPT !.y = @ - (dt * ws[i].speed) \div 1000]]

----------------------------------------------------------------------------
(* Collision resolution, lines 169-203 *)

\* playerY = 0.22 and the near-miss margin 0.03
PlayerY == 22000
NearEdge == 3000

\* mutant of Crossing: the test is on the level, not on the edge
CrossingLevel(w, dt) == w.y <= PlayerY
\* mutant of Crossing: the band is half as deep as the wave's step
CrossingThin(w, dt) ==
    w.y <= PlayerY /\ w.y > PlayerY - (dt * w.speed) \div 2000

Crossing(w, dt) ==
    w.y <= PlayerY /\ w.y > PlayerY - (dt * w.speed) \div 1000

GapLeft(w) == w.gapX - w.gapW \div 2
GapRight(w) == w.gapX + w.gapW \div 2
Inside(w, p) == p >= GapLeft(w) /\ p <= GapRight(w)
\* mutant of EdgeDist: the right edge is forgotten
EdgeDistLeft(w, p) == p - (w.gapX - w.gapW \div 2)
EdgeDist(w, p) == Min(p - GapLeft(w), GapRight(w) - p)

\* the scoring state the loop body reads and writes
Tally(h, s, n, sc, al, q) ==
    [hits |-> h, streak |-> s, nearMiss |-> n, score |-> sc, alive |-> al, queue |-> q]

\* mutant of Resolve: the miss branch leaves alive as it is
ResolveKeepsAlive(w, dt, p, t) ==
    IF ~Crossing(w, dt) THEN t
    ELSE IF Inside(w, p)
         THEN LET s1 == t.streak + 1
                  nm == EdgeDist(w, p) < NearEdge
              IN  [t EXCEPT !.hits = @ + 1,
                            !.streak = s1,
                            !.nearMiss = IF nm THEN @ + 1 ELSE @,
                            !.score = @ + (IF nm THEN 9 ELSE 0) + 18 + (s1 * 9) \div 10]
         ELSE [t EXCEPT !.queue = Append(@, "DOWN")]

\* one iteration of the for loop over the waves
Resolve(w, dt, p, t) ==
    IF ~Crossing(w, dt) THEN t
    ELSE IF Inside(w, p)
         THEN LET s1 == t.streak + 1
                  nm == EdgeDist(w, p) < NearEdge
              IN  [t EXCEPT !.hits = @ + 1,
                            !.streak = s1,
                            !.nearMiss = IF nm THEN @ + 1 ELSE @,
                            !.score = @ + (IF nm THEN 9 ELSE 0) + 18 + (s1 * 9) \div 10]
         ELSE [t EXCEPT !.alive = FALSE, !.queue = Append(@, "DOWN")]

RECURSIVE ResolveAll(_, _, _, _, _)
ResolveAll(ws, i, dt, p, t) ==
    IF i > Len(ws) THEN t
    ELSE ResolveAll(ws, i + 1, dt, p, Resolve(ws[i], dt, p, t))

\* line 206
Kept(ws) == SelectSeq(ws, LAMBDA w : w.y > -20000)

\* the history of the crossing test (line 172) after a tick has moved the field
\* to ws: a wave just spawned starts at 0, a wave the filter drops is forgotten
Counted(ws, cs, dt) ==
    LET n(i) == (IF i <= Len(cs) THEN cs[i] ELSE 0) + (IF Crossing(ws[i], dt) THEN 1 ELSE 0)
        zs   == [i \in DOMAIN ws |-> [w |-> ws[i], n |-> n(i)]]
        ks   == SelectSeq(zs, LAMBDA z : z.w.y > -20000)
    IN  [i \in DOMAIN ks |-> ks[i].n]

----------------------------------------------------------------------------
(* Player state update, lines 136-156 *)

ChargeStep(c, h, dt) ==
    IF h THEN clamp(c + dt * 85, 0, Unit) ELSE clamp(c - dt * 130, 0, Unit)

\* Math.sin(now * 0.0012) * 0.02 * dt
Drift(now, dt) == (SinMilli(now) * dt * 2) \div 1000

\* dash * (holding ? 0.25 : 1.0) * dt * 1.8, added to the velocity while dash > 0
DashVel(d, h, dt) ==
    IF d > 0 THEN ((IF h THEN d \div 4 ELSE d) * dt * 18) \div 10000 ELSE 0

DashStep(d, dt) == IF d > 0 THEN clamp(d - dt * 160, 0, 2 * Unit) ELSE d

VelStep(v, d, h, now, dt) ==
    ((v + Drift(now, dt) + DashVel(d, h, dt)) * Pow008(dt)) \div 1000

\* mutant of PxStep: the position is not clamped
PxStepFree(p, v) == p + v
PxStep(p, v) == clamp(p + v, 6000, 94000)

----------------------------------------------------------------------------
(* Persistence, lines 125-129 and 209-214 *)

\* Number(localStorage.getItem("sanctuary_best") ?? "0"), 0 when not finite
ReadBest(item) == IF item.kind = "num" THEN item.val ELSE 0

\* localStorage.setItem("sanctuary_best", String(best)); ok = FALSE when it throws
Written(item, b, ok) == IF ok THEN Item("num", b) ELSE item

\* bestRef after the effect's load; ok = FALSE when getItem throws
Loaded(b, item, ok) == IF ok THEN ReadBest(item) ELSE b

----------------------------------------------------------------------------
(* Frame scheduler *)

Ids(q) == {c.id : c \in q}
FreshId(q) == CHOOSE n \in 1..(Cardinality(q) + 1) : n \notin Ids(q)

\* mutant of Cancelled: the cleanup cancels nothing
CancelledNothing(q, h) == q
\* cancelAnimationFrame(h); h = 0 is the null the cleanup skips
Cancelled(q, h) == {c \in q : c.id # h}

\* requestAnimationFrame(tick) for the tick that reads status st
Requested(q, st) == q \cup {[id |-> FreshId(q), st |-> st]}

\* the record of a step: its operation, the operation before it, ui.status
\* before it, and for a tick its dt and whether its closure read LIVE
Step(op, dt, live) ==
    [op |-> op, prev |-> ev.op, st |-> uiStatus, dt |-> dt, live |-> live]

\* the view is mounted: its handlers are attached and React renders it
Mounted == ev.op # "unmount"

----------------------------------------------------------------------------
(* State after construction: the first render is committed, its effects    *)
(* have not run yet.                                                       *)

Init ==
    /\ px = 50000 /\ vel = 0 /\ dash = 0 /\ charge = 0 /\ alive = TRUE
    /\ waves = << >> /\ waveId = 1
    /\ score = 0 /\ best = 0 /\ streak = 0 /\ hits = 0 /\ nearMiss = 0
    /\ holding = FALSE /\ last = 0
    /\ rafRef = 0 /\ raf = {}
    /\ uiStatus = "READY" /\ uiQueue = << >>
    /\ effectDirty = TRUE /\ syncFlush = FALSE
    /\ stored \in StoredAtLoad
    /\ inputs = 0 /\ stale = 0 /\ crossings = << >>
    /\ ev = [op |-> "init", prev |-> "init", st |-> "READY", dt |-> 0, live |-> FALSE]

----------------------------------------------------------------------------
(* The main-loop effect, lines 123-238: the cleanup of its previous run,   *)
(* then its body for the status st of the render that scheduled it.        *)

EffectRun(ok, st) ==
    /\ best' = Loaded(best, stored, ok)
    /\ raf' = Requested(Cancelled(raf, rafRef), st)
    /\ rafRef' = FreshId(Cancelled(raf, rafRef))
    /\ effectDirty' = FALSE
    /\ stale' = 0

\* React runs the scheduled effect in a task of its own
RunEffect ==
    /\ Mounted /\ effectDirty /\ ~syncFlush
    /\ \E ok \in BOOLEAN : EffectRun(ok, uiStatus)
    /\ ev' = Step("effect", 0, FALSE)
    /\ UNCHANGED << simVars, holding, last, uiStatus, uiQueue, syncFlush, stored, inputs,
                    crossings >>

\* the status after the queued updaters are applied in order
Rendered(st, q) == IF q = << >> THEN st ELSE q[Len(q)]

\* React renders the updaters a tick queued (a task after the frame); a
\* scheduled effect is always run before the next render starts
Render ==
    /\ Mounted /\ uiQueue # << >> /\ ~syncFlush /\ ~effectDirty
    /\ uiStatus' = Rendered(uiStatus, uiQueue)
    /\ uiQueue' = << >>
    /\ effectDirty' = (uiStatus' # uiStatus)
    /\ stale' = IF uiStatus' # uiStatus THEN stale ELSE 0
    /\ ev' = Step("render", 0, FALSE)
    /\ UNCHANGED << simVars, best, holding, last, rafRef, raf, syncFlush, stored, inputs,
                    crossings >>

\* The view is torn down.  React first runs an effect run still scheduled
\* (cleanup of the previous run, then the body), then the cleanup of the last
\* run, lines 234-236; updates still queued are dropped.
Unmount ==
    /\ Mounted /\ ~syncFlush
    /\ IF effectDirty
       THEN LET q == Cancelled(raf, rafRef)
            IN  /\ \E ok \in BOOLEAN : best' = Loaded(best, stored, ok)
                /\ rafRef' = FreshId(q)
                /\ raf' = Cancelled(Requested(q, uiStatus), FreshId(q))
       ELSE /\ raf' = Cancelled(raf, rafRef)
            /\ UNCHANGED << best, rafRef >>
    /\ effectDirty' = FALSE /\ uiQueue' = << >> /\ stale' = 0
    /\ ev' = Step("unmount", 0, FALSE)
    /\ UNCHANGED << simVars, holding, last, uiStatus, syncFlush, stored, inputs, crossings >>

----------------------------------------------------------------------------
(* reset, lines 53-79 *)

\* mutant of Reset: the dash impulse and the charge survive a reset
ResetKeepsDash ==
    /\ px' = 50000 /\ vel' = 0 /\ UNCHANGED << dash, charge >> /\ alive' = TRUE
    /\ waves' = << >> /\ waveId' = 1
    /\ score' = 0 /\ streak' = 0 /\ hits' = 0 /\ nearMiss' = 0
    /\ uiQueue' = Append(uiQueue, "LIVE")
    /\ crossings' = << >>

Reset ==
    /\ px' = 50000 /\ vel' = 0 /\ dash' = 0 /\ charge' = 0 /\ alive' = TRUE
    /\ waves' = << >> /\ waveId' = 1
    /\ score' = 0 /\ streak' = 0 /\ hits' = 0 /\ nearMiss' = 0
    /\ uiQueue' = Append(uiQueue, "LIVE")
    /\ crossings' = << >>

\* onHoldStart, lines 93-96 (onPointerDown, line 256)
\* mutant of NeedsReset: every hold-start resets
NeedsResetAlways(st) == st \in {"READY", "LIVE", "DOWN"}
NeedsReset(st) == st = "READY" \/ st = "DOWN"

HoldStart(touch) ==
    /\ Mounted /\ ~syncFlush /\ touch
    /\ IF NeedsReset(uiStatus)
       THEN Reset /\ syncFlush' = TRUE
       ELSE UNCHANGED << simVars, uiQueue, syncFlush, crossings >>
    /\ holding' = TRUE
    /\ inputs' = inputs + 1
    /\ ev' = Step("holdStart", 0, FALSE)
    /\ UNCHANGED << best, last, rafRef, raf, uiStatus, effectDirty, stored, stale >>

\* React flushes the update of a pointer-down handler, and the effect it
\* schedules, before the browser delivers anything else (an effect still
\* scheduled from an earlier render runs first: its load reads the same item)
Flush ==
    /\ syncFlush
    /\ uiStatus' = Rendered(uiStatus, uiQueue)
    /\ uiQueue' = << >>
    /\ syncFlush' = FALSE
    /\ \E ok \in BOOLEAN : EffectRun(ok, Rendered(uiStatus, uiQueue))
    /\ ev' = Step("flush", 0, FALSE)
    /\ UNCHANGED << simVars, holding, last, stored, inputs, crossings >>

\* onHoldEnd, lines 98-107 (onPointerUp, onPointerCancel, onPointerLeave)
\* mutant of Released: the impulse is granted whether or not the player is alive
ReleasedAnyway(d, c, al) == clamp(d + 35000 + (c * 12) \div 10, 0, 160000)
Released(d, c, al) ==
    IF al THEN clamp(d + 35000 + (c * 12) \div 10, 0, 160000) ELSE d

HoldEnd(touch) ==
    /\ Mounted /\ ~syncFlush /\ touch
    /\ holding' = FALSE
    /\ dash' = Released(dash, charge, alive)
    /\ charge' = 0
    /\ inputs' = inputs + 1
    /\ ev' = Step("holdEnd", 0, FALSE)
    /\ UNCHANGED << px, vel, alive, waves, waveId, score, best, streak, hits, nearMiss,
                    last, rafRef, raf, uiStatus, uiQueue, effectDirty, syncFlush, stored,
                    stale, crossings >>

----------------------------------------------------------------------------
(* tick, lines 131-231 *)

\* the values Math.random() may return at a spawn site that is reached
Draws(reached) == IF reached THEN Rands ELSE {0}
\* whether localStorage.setItem succeeds, where it is called
Outcomes(called) == IF called THEN BOOLEAN ELSE {TRUE}

\* the body under if (ui.status === "LIVE")
LiveTick(now, dt, r1, r2) ==
    LET v1 == VelStep(vel, dash, holding, now, dt)
        p1 == PxStep(px, v1)
        ws == Moved(Spawned(waves, waveId, score, r1, r2), dt)
        t  == ResolveAll(ws, 1, dt, p1,
                         Tally(hits, streak, nearMiss, score, alive, uiQueue))
    IN  /\ charge' = ChargeStep(charge, holding, dt)
        /\ dash' = DashStep(dash, dt)
        /\ vel' = v1
        /\ px' = p1
        /\ waveId' = waveId + Len(ws) - Len(waves)
        /\ waves' = Kept(ws)
        /\ crossings' = Counted(ws, crossings, dt)
        /\ hits' = t.hits /\ streak' = t.streak /\ nearMiss' = t.nearMiss
        /\ score' = t.score /\ alive' = t.alive /\ uiQueue' = t.queue
        /\ best' = Max(best, t.score)
        /\ \E wok \in Outcomes(t.score > best) :
              stored' = IF t.score > best THEN Written(stored, t.score, wok) ELSE stored

\* mutant of Gate: the tick simulates in every status
GateOpen(st) == st \in {"READY", "LIVE", "DOWN"}
\* line 135
Gate(st) == st = "LIVE"

\* a status update is queued, or rendered and its effect not yet re-run
Pending == uiQueue # << >> \/ effectDirty

\* a frame callback runs, the time since the last frame drawn from ds
TickOf(maxNow, ds) ==
    /\ ~syncFlush
    /\ Pending => stale < MaxStale
    /\ \E c \in raf, d \in ds :
         LET now == last + d
             dt  == DtOf(now, last)
         IN  /\ now <= maxNow
             /\ last' = now
             /\ IF Gate(c.st)
                THEN \E r1 \in Draws(waves = << >>), r2 \in Draws(SpawnLow(waves)) :
                         LiveTick(now, dt, r1, r2)
                ELSE UNCHANGED << simVars, best, uiQueue, stored, crossings >>
             /\ stale' = IF Pending THEN stale + 1 ELSE 0
             /\ raf' = Requested(raf \ {c}, c.st)
             /\ rafRef' = FreshId(raf \ {c})
             /\ ev' = Step("tick", dt, Gate(c.st))
    /\ UNCHANGED << holding, uiStatus, effectDirty, syncFlush, inputs >>

Tick(maxNow) == TickOf(maxNow, Deltas)

----------------------------------------------------------------------------
(* Specifications *)

\* Spec: the pointer is sampled every PointerEvery frames
Touch == inputs < MaxInputs /\ (last \div FrameMs) % PointerEvery = 0

Next ==
    \/ RunEffect
    \/ Render
    \/ Flush
    \/ HoldStart(Touch)
    \/ HoldEnd(Touch)
    \/ Tick(MaxFrames * FrameMs)

Spec == Init /\ [][Next]_vars

\* SpecLong: a longer run, the pointer events all before the first frame
TouchEarly == inputs < MaxInputs /\ last = 0

NextLong ==
    \/ RunEffect
    \/ Render
    \/ Flush
    \/ HoldStart(TouchEarly)
    \/ HoldEnd(TouchEarly)
    \/ Tick(LongFrames * FrameMs)

SpecLong == Init /\ [][NextLong]_vars

\* SpecTeardown: Spec over TeardownFrames frames, and the view may be torn down
\* at any time
NextTeardown ==
    \/ RunEffect
    \/ Render
    \/ Flush
    \/ HoldStart(Touch)
    \/ HoldEnd(Touch)
    \/ Tick(TeardownFrames * FrameMs)
    \/ Unmount

SpecTeardown == Init /\ [][NextTeardown]_vars

\* SpecDt: the frame period varies while a wave is about to cross the player
\* band or has just crossed it (within BandNear of it) and the run is not over:
\* any of DeltasWide after a tick of the full MaxDt, the period of Deltas after
\* a shorter tick
TouchFirst == inputs < DtInputs /\ last = 0

AtBand ==
    \E i \in DOMAIN waves :
        waves[i].y > PlayerY - BandNear /\ waves[i].y <= PlayerY + BandNear

DeltasNow ==
    IF AtBand /\ alive /\ (ev.op = "tick" => ev.dt = MaxDt) THEN DeltasWide ELSE Deltas

NextDt ==
    \/ RunEffect
    \/ Render
    \/ Flush
    \/ HoldStart(TouchFirst)
    \/ HoldEnd(TouchFirst)
    \/ TickOf(DtFrames * FrameMs, DeltasNow)

SpecDt == Init /\ [][NextDt]_vars

----------------------------------------------------------------------------
(* Claims *)

\* the step taken is a tick whose closure read LIVE / any tick / a handler
LiveTickStep == ev'.op = "tick" /\ ev'.live
TickStep == ev'.op = "tick"
HoldStartStep == ev'.op = "holdStart"
HoldEndStep == ev'.op = "holdEnd"

\* C1: once a crossing has resolved as MISS (alive is false), every tick that
\* runs before the next hold-start leaves position, score and the wave field
\* unchanged, and the status, once DOWN, stays DOWN until a hold-start: the
\* LIVE to DOWN change happens once in the run.
C1_FrozenAfterMiss ==
    [][ /\ (~alive /\ TickStep) => (px' = px /\ score' = score /\ waves' = waves)
        /\ (uiStatus = "DOWN" /\ uiStatus' # "DOWN") => ev'.op = "flush" ]_vars

\* C2: the in-memory best score never decreases.
C2_BestMonotonic == [][best' >= best]_vars

\* C3: ui.status changes only READY to LIVE and DOWN to LIVE, in the flush of a
\* hold-start that has run reset, and LIVE to DOWN, after a MISS has cleared
\* alive; a tick that runs while the status is READY queues no status update.
C3_Transitions ==
    [][ /\ uiStatus' # uiStatus =>
             \/ /\ uiStatus \in {"READY", "DOWN"} /\ uiStatus' = "LIVE"
                /\ ev.op = "holdStart" /\ ev'.op = "flush"
                /\ alive /\ score = 0 /\ waves = << >>
             \/ /\ uiStatus = "LIVE" /\ uiStatus' = "DOWN"
                /\ ~alive
        /\ (TickStep /\ uiStatus = "READY") => (uiQueue' = uiQueue /\ UNCHANGED simVars)
      ]_vars

C3_Witness == ev.op = "flush" /\ ev.st = "DOWN" /\ uiStatus = "LIVE" /\ inputs > 1

\* C4: reset (run by a hold-start in READY or DOWN) zeroes score, streak, hits,
\* nearMisses, dash and charge, sets alive, centres the position, empties the
\* wave field, leaves best unchanged and queues status LIVE, which the flush
\* that follows commits.
C4_Reset ==
    [][ /\ (HoldStartStep /\ uiStatus \in {"READY", "DOWN"}) =>
             /\ score' = 0 /\ streak' = 0 /\ hits' = 0 /\ nearMiss' = 0
             /\ dash' = 0 /\ charge' = 0 /\ alive' = TRUE /\ px' = 50000
             /\ waves' = << >>
             /\ best' = best
             /\ uiQueue' # << >> /\ uiQueue'[Len(uiQueue')] = "LIVE"
             /\ syncFlush'
        /\ syncFlush => (ev'.op = "flush" /\ uiStatus' = "LIVE")
      ]_vars

C4_Witness ==
    /\ ev.op = "holdStart" /\ ev.st = "DOWN" /\ syncFlush
    /\ waves = << >> /\ alive /\ best > 0

\* C5: position in [0.06, 0.94], charge in [0, 1], dash in [0, 2], every wave's
\* gapWidth in [0.12, 0.26] and speed in [0.35, 1.15].
C5_Ranges ==
    /\ px >= 6000 /\ px <= 94000
    /\ charge >= 0 /\ charge <= 100000
    /\ dash >= 0 /\ dash <= 200000
    /\ \A i \in DOMAIN waves :
          /\ waves[i].gapW >= 12000 /\ waves[i].gapW <= 26000
          /\ waves[i].speed >= 35000 /\ waves[i].speed <= 115000

C5_Witness == px = 94000 /\ charge = 100000 /\ waves # << >>

\* C6: a hold-start that follows a hold-start with no hold-end between them
\* changes nothing: no reset, no status update, the holding flag stays true.
C6_SecondHoldStart ==
    [][ (HoldStartStep /\ ev.op \in {"holdStart", "flush"}) =>
            /\ UNCHANGED simVars
            /\ UNCHANGED << best, uiStatus, uiQueue, syncFlush >>
            /\ holding /\ holding'
            /\ uiStatus = "LIVE" ]_vars

C6_Witness ==
    /\ ev.op = "holdStart" /\ ev.prev \in {"holdStart", "flush"}
    /\ waves # << >>

\* C7: a hold-end received while the holding flag is false changes nothing.
C7_IdleHoldEnd ==
    [][ (HoldEndStep /\ ~holding) =>
            (UNCHANGED simVars /\ UNCHANGED << best, holding, uiStatus, uiQueue >>) ]_vars

\* C8: hold-end sets dash to clamp(dash + 0.35 + charge*1.2, 0, 1.6) when alive
\* and leaves dash unchanged when not alive; in both cases charge becomes 0.
C8_HoldEnd ==
    [][ HoldEndStep =>
            /\ charge' = 0
            /\ alive => dash' = Max(0, Min(160000, dash + 35000 + (charge * 12) \div 10))
            /\ ~alive => dash' = dash ]_vars

C8_Witness == ev.op = "holdEnd" /\ ~alive /\ waves # << >>

\* the waves of a field that crossed the player band in the tick that has just
\* moved them by their speed times dt: at or below 0.22 now, above it before
CrossedIn(ws, dt) ==
    {i \in DOMAIN ws :
        ws[i].y <= 22000 /\ ws[i].y + (dt * ws[i].speed) \div 1000 > 22000}

\* position p is within the gap of wave w, edges included
InGap(w, p) == p >= w.gapX - w.gapW \div 2 /\ p <= w.gapX + w.gapW \div 2
\* a hit at p is within 0.03 of the nearer edge of the gap of w
NearMissAt(w, p) ==
    \/ p - (w.gapX - w.gapW \div 2) < 3000
    \/ (w.gapX + w.gapW \div 2) - p < 3000

\* C9: a wave crossing with the position inside its gap adds 1 to hits and to
\* streak and 18 + floor(newStreak * 0.9) to score, plus 9 and one near miss
\* exactly when the position is within 0.03 of the nearer edge; a wave crossing
\* with the position outside changes no counter and clears alive.
C9_Crossing ==
    [][ (LiveTickStep /\ Cardinality(CrossedIn(waves', ev'.dt)) = 1) =>
          LET w    == waves'[CHOOSE i \in CrossedIn(waves', ev'.dt) : TRUE]
              near == NearMissAt(w, px')
          IN  IF InGap(w, px')
              THEN /\ hits' = hits + 1
                   /\ streak' = streak + 1
                   /\ nearMiss' = nearMiss + (IF near THEN 1 ELSE 0)
                   /\ score' = score + 18 + ((streak + 1) * 9) \div 10
                                     + (IF near THEN 9 ELSE 0)
                   /\ alive' = alive
              ELSE /\ hits' = hits /\ streak' = streak /\ nearMiss' = nearMiss
                   /\ score' = score
                   /\ alive' = FALSE ]_vars

C9_Witness == ev.op = "tick" /\ ev.live /\ hits = 2 /\ nearMiss > 0 /\ score > 36

\* C10: a tick issues at most one DOWN status update, and in a tick that
\* resolves a MISS the counters change only by the hits of the waves the loop
\* resolved before the first missed wave.
C10_OneMissPerTick ==
    [][ LiveTickStep =>
          LET cross  == CrossedIn(waves', ev'.dt)
              miss   == {i \in cross : ~InGap(waves'[i], px')}
              before == {i \in cross : \A m \in miss : i < m}
          IN  /\ Len(uiQueue') <= Len(uiQueue) + 1
              /\ miss # {} =>
                   /\ Len(uiQueue') = Len(uiQueue) + 1
                   /\ hits' = hits + Cardinality(before)
                   /\ streak' = streak + Cardinality(before)
                   /\ nearMiss' <= nearMiss + Cardinality(before)
                   /\ before = {} => score' = score ]_vars

C10_Witness ==
    /\ ev.op = "tick" /\ ev.live /\ ~alive /\ stale = 0
    /\ uiQueue = << "DOWN" >> /\ Len(waves) > 1

\* C11: over the lifetime of a wave, for every sequence of tick deltas, the
\* crossing test is true in at most one tick.
C11_CrossesOnce ==
    /\ Len(crossings) = Len(waves)
    /\ \A i \in DOMAIN crossings : crossings[i] <= 1

C11_Witness ==
    /\ ev.op = "tick" /\ ev.live /\ last % FrameMs # 0
    /\ \E i \in DOMAIN waves : crossings[i] = 1 /\ waves[i].y < 0

\* C12: a tick that resolves a crossing as MISS leaves streak at 0.
C12_StreakZeroOnMiss ==
    [][ (LiveTickStep /\ \E i \in CrossedIn(waves', ev'.dt) : ~InGap(waves'[i], px'))
            => streak' = 0 ]_vars

\* C13: the stored best is read once, by the first run of the loop effect: the
\* effect body, which starts with the read and the assignment to best, does
\* not run again once a loop has been subscribed (rafRef is set).
C13_ReadOnce ==
    [][ ev'.op \in {"effect", "flush"} => rafRef = 0 ]_vars

\* C14: at most one tick is pending in the frame scheduler; after the loop
\* effect has re-subscribed the only pending tick is the one the new run
\* requested, so no tick of the cleaned-up loop runs again; after the view is
\* torn down no tick is pending and none runs.
C14_OnePending ==
    /\ [](Cardinality(raf) <= 1)
    /\ [](~Mounted => raf = {})
    /\ [][ /\ ev'.op \in {"effect", "flush"} =>
                  raf' = {[id |-> rafRef', st |-> uiStatus']}
           /\ ~Mounted => ev'.op # "tick" ]_vars

C14_Witness ==
    /\ ev.op = "unmount" /\ ev.prev = "tick" /\ ev.st = "DOWN"
    /\ rafRef # 0 /\ raf = {} /\ ~alive

\* C15: after every tick that runs the LIVE branch the wave field is not
\* empty and its last wave, the most recently spawned, is above the player
\* band; the tick has spawned at most one wave.
C15_FieldFed ==
    [][ LiveTickStep =>
          /\ waves' # << >>
          /\ waves'[Len(waves')].y > 22000
          /\ waveId' <= waveId + 1
          /\ Cardinality({j \in DOMAIN waves' :
                             \A i \in DOMAIN waves : waves[i].id # waves'[j].id}) <= 1
      ]_vars

C15_Witness ==
    /\ ev.op = "tick" /\ ev.live
    /\ Len(waves) >= 2 /\ waves[1].y <= 22000 /\ waves[Len(waves)].y > 100000

\* C16: the wave field is in spawn order (ids ascending) and a wave spawned
\* later is never below a wave spawned earlier.
C16_FieldOrdered ==
    \A i, j \in DOMAIN waves :
        i < j => (waves[i].id < waves[j].id /\ waves[i].y <= waves[j].y)

C16_Witness ==
    /\ Len(waves) >= 2
    /\ waves[Len(waves)].speed > waves[1].speed
    /\ waves[Len(waves)].y < 100000

\* C17: wave ids increase over the life of the page: spawnWave takes each id
\* from the counter waveId and steps it, so the counter never goes back, and
\* a tick that spawns gives the new wave an id above every id in the field.
C17_IdsMonotonic ==
    [][ /\ waveId' >= waveId
        /\ \A j \in DOMAIN waves' : waves'[j].id < waveId' ]_vars

\* C18: the in-memory best is at least the score, after every tick of the
\* LIVE branch and in every state after it up to the next reset (before the
\* first tick of a run the score is 0).
C18_BestCoversScore == best >= score

C20_PrunedResolved ==
    [][ LiveTickStep =>
          \A i \in DOMAIN waves :
              (\A j \in DOMAIN waves' : waves'[j].id # waves[i].id) =>
                  /\ crossings[i] = 1
                  /\ waves[i].y <= PlayerY /\ waves[i].y > -20000 ]_vars

C20_Witness ==
    /\ ev.op = "tick" /\ ev.live /\ last % FrameMs # 0
    /\ waves # << >> /\ waves[1].id = 2 /\ hits > 0

====
